---- MODULE Spec2Model ----
(***************************************************************************)
(* The upload widget (UploadImage, multi-image version) and the generation *)
(* route POST /api/upload it talks to, as one state machine.               *)
(*                                                                         *)
(* Conventions.  A nullable value (string | null, or an optional field) is *)
(* a sequence of length 0 or 1: None is null, Some(v) is v.  An optional   *)
(* string that the code only ever tests for truthiness is the string       *)
(* itself, "" standing for both the absent and the empty value.            *)
(***************************************************************************)
EXTENDS Integers, Sequences, FiniteSets, TLC

None == <<>>
Some(v) == <<v>>

(***************************************************************************)
(* Program constants of the widget.                                        *)
(***************************************************************************)
MAX_IMAGES == 10
MiB == 1024 * 1024
MAX_TOTAL_BYTES == 25 * MiB

(***************************************************************************)
(* String helpers, computed character by character as the runtime does.    *)
(***************************************************************************)
IsSpace(c) == c \in {" ", "\t", "\n", "\r"}

RECURSIVE TrimStart(_)
TrimStart(s) ==
    IF Len(s) > 0 /\ IsSpace(SubSeq(s, 1, 1))
    THEN TrimStart(SubSeq(s, 2, Len(s)))
    ELSE s

RECURSIVE TrimEnd(_)
TrimEnd(s) ==
    IF Len(s) > 0 /\ IsSpace(SubSeq(s, Len(s), Len(s)))
    THEN TrimEnd(SubSeq(s, 1, Len(s) - 1))
    ELSE s

\* String.prototype.trim
Trim(s) == TrimEnd(TrimStart(s))

\* String.prototype.startsWith
StartsWith(s, p) == Len(s) >= Len(p) /\ SubSeq(s, 1, Len(p)) = p

\* Array.prototype.join over a sequence of strings
RECURSIVE Join(_, _)
Join(strs, sep) ==
    IF Len(strs) = 0 THEN ""
    ELSE IF Len(strs) = 1 THEN strs[1]
    ELSE strs[1] \o sep \o Join(Tail(strs), sep)

\* (x / d).toFixed(1) for non-negative integers x, d > 0 (round half up)
ToFixed1(x, d) ==
    LET tenths == (x * 10 + d \div 2) \div d
    IN  ToString(tenths \div 10) \o "." \o ToString(tenths % 10)

(***************************************************************************)
(* Files.  A File is what the widget reads of it: name, size, lastModified *)
(* and type.                                                               *)
(***************************************************************************)
File(n, sz, lm, ty) == [name |-> n, size |-> sz, lastModified |-> lm, type |-> ty]

SmallNames == <<"a01.png", "a02.png", "a03.png", "a04.png", "a05.png", "a06.png",
                "a07.png", "a08.png", "a09.png", "a10.png">>
Small(i) == File(SmallNames[i], MiB, 1000, "image/png")
Smalls(a, b) == [i \in 1..(b - a + 1) |-> Small(a + i - 1)]

Big == File("big.png", 16 * MiB, 2000, "image/png")
Med == File("med.jpg", 3 * MiB, 3000, "image/jpeg")
Huge == File("huge.png", 26 * MiB, 5000, "image/png")
Notes == File("notes.txt", 10, 6000, "text/plain")
Untyped == File("raw.bin", 10, 7000, "")

\* The FileLists a picker selection or a drop hands to the widget.
FileLists ==
    { Smalls(1, 9),                       \* nine images, 9 MiB
      <<Big>> \o Smalls(1, 8),            \* nine images, 24 MiB
      <<Med, Notes, Small(10), Med>>,     \* two images (4 MiB), one twice, and a non-image
      <<Small(10), Huge>>,                \* two images, 27 MiB
      <<Notes, Untyped>> }                \* no image at all

\* A drop may also carry no file (dragged text): an empty FileList.
DropLists == FileLists \cup { <<>> }

\* What the user may type into the prompt box.
Prompts == { "", "  ", " cat\n", "null" }

(***************************************************************************)
(* Messages of the widget.                                                 *)
(***************************************************************************)
MsgInvalidFiles == "Please select valid image files."
MsgMaxImages == "You can upload up to " \o ToString(MAX_IMAGES) \o " images."
MsgTotalSize ==
    "Total size exceeds " \o ToFixed1(MAX_TOTAL_BYTES, 1024 * 1024) \o " MB. "
        \o "Please remove some images or use smaller files."
MsgMissingInput == "Enter a prompt or upload images."
MsgUploadFailed == "Upload failed"
MsgGenerated == "Image generated successfully."

(***************************************************************************)
(* State.  The widget's React state and refs, the browser's file dialog,   *)
(* and the fetches not yet settled.                                        *)
(***************************************************************************)
VARIABLES
    selectedFiles,            \* File[]
    previewUrls,              \* string[], one object URL per selected file
    errorMessage,             \* string | null   (selection banner)
    instructions,             \* string          (prompt box)
    isSubmitting,             \* boolean
    submitError,              \* string | null
    submitSuccess,            \* string | null
    resultImage,              \* string | null   (data URL)
    appendNextSelectionRef,   \* boolean ref
    dialogOpen,               \* the native file dialog of the hidden input is open
    inflight,                 \* fetches awaiting settlement: [req, resp, api, calls, key, logged]
    lastSubmission,           \* history: "none" | "pending" | "outdated" | "done", the latest
                              \* request issued; outdated: pending, and the user has cleared
                              \* or changed the selection since
    resultOrigin              \* history: "none" | "latest" | "earlier", whose image is displayed

vars == <<selectedFiles, previewUrls, errorMessage, instructions, isSubmitting,
          submitError, submitSuccess, resultImage, appendNextSelectionRef,
          dialogOpen, inflight, lastSubmission, resultOrigin>>

(***************************************************************************)
(* selectFiles                                                             *)
(***************************************************************************)
\* Variant: any file with a declared type passes the filter.
IsImage_AnyTyped(f) == f.type # ""

\* f.type.startsWith("image/")
IsImage(f) == StartsWith(f.type, "image/")

\* `${f.name}_${f.size}_${f.lastModified}`
Key(f) == f.name \o "_" \o ToString(f.size) \o "_" \o ToString(f.lastModified)

\* the for loop over combined with the seen set
RECURSIVE DedupeLoop(_, _, _)
DedupeLoop(rest, seen, deduped) ==
    IF Len(rest) = 0 THEN deduped
    ELSE LET f == Head(rest)
         IN  IF Key(f) \notin seen
             THEN DedupeLoop(Tail(rest), seen \cup {Key(f)}, Append(deduped, f))
             ELSE DedupeLoop(Tail(rest), seen, deduped)

\* Variant: of two entries with one key the later is kept.
Dedupe_KeepsLast(combined) ==
    LET Reverse(list) == [k \in 1..Len(list) |-> list[Len(list) - k + 1]]
    IN  Reverse(DedupeLoop(Reverse(combined), {}, <<>>))

Dedupe(combined) == DedupeLoop(combined, {}, <<>>)

\* Variant: keeps the last MAX_IMAGES entries instead of the first.
Truncate_KeepsLast(deduped) ==
    IF Len(deduped) > MAX_IMAGES
    THEN SubSeq(deduped, Len(deduped) - MAX_IMAGES + 1, Len(deduped)) ELSE deduped

\* deduped.length = MAX_IMAGES when it is longer
Truncate(deduped) ==
    IF Len(deduped) > MAX_IMAGES THEN SubSeq(deduped, 1, MAX_IMAGES) ELSE deduped

\* deduped.reduce((acc, f) => acc + f.size, 0)
RECURSIVE TotalBytes(_)
TotalBytes(files) ==
    IF Len(files) = 0 THEN 0 ELSE Head(files).size + TotalBytes(Tail(files))

\* Variant: the budget compared with the bytes of the first file only.
OverBudget_FirstFileOnly(files) == Len(files) > 0 /\ files[1].size > MAX_TOTAL_BYTES

\* totalBytes > MAX_TOTAL_BYTES
OverBudget(files) == TotalBytes(files) > MAX_TOTAL_BYTES

\* URL.createObjectURL(f): a handle on that file
CreateObjectURL(f) == [blob |-> f]

\* Variant: every selection starts from an empty list.
Base_NeverAppends(append) == <<>>

\* const base = append && selectedFiles.length > 0 ? selectedFiles : []
Base(append) == IF append /\ Len(selectedFiles) > 0 THEN selectedFiles ELSE <<>>

\* Variant: an early return that drops the selection.
EarlyReturn_DropsSelection(message) ==
    [selectedFiles |-> <<>>,
     previewUrls   |-> <<>>,
     errorMessage  |-> message,
     resultImage   |-> None]

\* Variant: an early return that skips setResultImage(null).
EarlyReturn_KeepsResult(message) ==
    [selectedFiles |-> selectedFiles,
     previewUrls   |-> previewUrls,
     errorMessage  |-> message,
     resultImage   |-> resultImage]

\* The state selectFiles leaves when it returns early: the two setters of its
\* first lines have run, the selection is as it was.
EarlyReturn(message) ==
    [selectedFiles |-> selectedFiles,
     previewUrls   |-> previewUrls,
     errorMessage  |-> message,
     resultImage   |-> None]

\* Variant: every preview made from the first accepted file.
Accept_PreviewsOfFirst(deduped, message) ==
    [selectedFiles |-> deduped,
     previewUrls   |-> [i \in 1..Len(deduped) |-> CreateObjectURL(deduped[1])],
     errorMessage  |-> message,
     resultImage   |-> None]

\* The state selectFiles leaves when it accepts deduped.
Accept(deduped, message) ==
    [selectedFiles |-> deduped,
     previewUrls   |-> [i \in 1..Len(deduped) |-> CreateObjectURL(deduped[i])],
     errorMessage  |-> message,
     resultImage   |-> None]

\* selectFiles(filesLike, append); filesLike is None for null.
selectFiles(filesLike, append) ==
    IF filesLike = None THEN EarlyReturn(None)
    ELSE LET incoming == SelectSeq(filesLike[1], IsImage)
         IN  IF Len(incoming) = 0 THEN EarlyReturn(Some(MsgInvalidFiles))
             ELSE LET merged  == Dedupe(Base(append) \o incoming)
                      deduped == Truncate(merged)
                      warning == IF Len(merged) > MAX_IMAGES
                                 THEN Some(MsgMaxImages) ELSE None
                  IN  IF OverBudget(deduped)
                      THEN EarlyReturn(Some(MsgTotalSize))
                      ELSE Accept(deduped, warning)

\* The state change of a handler that calls selectFiles.
SelectFilesCall(filesLike, append) ==
    LET r == selectFiles(filesLike, append)
    IN  /\ selectedFiles' = r.selectedFiles
        /\ previewUrls' = r.previewUrls
        /\ errorMessage' = r.errorMessage
        /\ resultImage' = r.resultImage
        /\ resultOrigin' = "none"
        /\ lastSubmission' = IF lastSubmission = "pending" /\ r.selectedFiles # selectedFiles
                             THEN "outdated" ELSE lastSubmission

(***************************************************************************)
(* The route POST /api/upload.                                             *)
(*                                                                         *)
(* A request is [parsable, prompt, files, file]: whether request.formData()*)
(* succeeds, the "prompt" entry when it is a string (None otherwise), the  *)
(* File entries under "files" in order, and the File entry under "file".   *)
(* The external API's outcome is [throws, status, message, blockReason,    *)
(* blockReasonMessage, candidates]; a candidate is [finishReason,          *)
(* finishMessage, parts, safetyRatings]; a part is [text, data, mimeType]. *)
(* A response is [status, body], body = [ok, size, imageBase64, mimeType,  *)
(* error] with None / "" for a field the JSON does not carry.              *)
(***************************************************************************)
DefaultMergePrompt ==
    "Merge the provided images into a single cohesive image. Blend them naturally, align perspectives, and harmonize colors. Return only the merged image."

BlockingFinishReasons ==
    {"SAFETY", "BLOCKLIST", "PROHIBITED", "RECITATION", "OTHER", "ERROR"}

LowerCase == "abcdefghijklmnopqrstuvwxyz"
UpperCase == "ABCDEFGHIJKLMNOPQRSTUVWXYZ"

\* String.prototype.toUpperCase on ASCII text
RECURSIVE ToUpperCase(_)
ToUpperCase(s) ==
    IF Len(s) = 0 THEN ""
    ELSE LET c == SubSeq(s, 1, 1)
             up == IF \E i \in 1..26 : SubSeq(LowerCase, i, i) = c
                   THEN LET i == CHOOSE i \in 1..26 : SubSeq(LowerCase, i, i) = c
                        IN  SubSeq(UpperCase, i, i)
                   ELSE c
         IN  up \o ToUpperCase(SubSeq(s, 2, Len(s)))

\* JSON.stringify of the safetyRatings array of {category, probability}
JSONStringify(ratings) ==
    "[" \o Join([i \in 1..Len(ratings) |->
                    "{\"category\":\"" \o ratings[i].category
                        \o "\",\"probability\":\"" \o ratings[i].probability \o "\"}"],
                ",") \o "]"

ErrorResponse(message, status) ==
    [status |-> status,
     body   |-> [ok |-> FALSE, size |-> None, imageBase64 |-> "", mimeType |-> "",
                 error |-> message]]

\* Variant: a success body that always carries size.
SuccessResponse_AlwaysSize(totalBytes, data, mimeType) ==
    [status |-> 200,
     body   |-> [ok |-> TRUE,
                 size |-> Some(totalBytes),
                 imageBase64 |-> data,
                 mimeType |-> IF mimeType # "" THEN mimeType ELSE "image/png",
                 error |-> ""]]

\* size: totalBytes || undefined leaves the field out of the JSON when it is 0
SuccessResponse(totalBytes, data, mimeType) ==
    [status |-> 200,
     body   |-> [ok |-> TRUE,
                 size |-> IF totalBytes # 0 THEN Some(totalBytes) ELSE None,
                 imageBase64 |-> data,
                 mimeType |-> IF mimeType # "" THEN mimeType ELSE "image/png",
                 error |-> ""]]

\* Variant: the "file" entry taken in addition to the "files" entries.
RouteFiles_AlsoFile(req) ==
    req.files \o (IF req.file # None THEN <<req.file[1]>> ELSE <<>>)

\* files: the "files" entries, or the single "file" entry when there are none
RouteFiles(req) ==
    IF Len(req.files) = 0 /\ req.file # None THEN <<req.file[1]>> ELSE req.files

PromptTextRaw(req) == IF req.prompt # None THEN Trim(req.prompt[1]) ELSE ""

\* Variant: any text that is not blank counts as the user's prompt.
HasUserPrompt_AnyText(req) == Len(PromptTextRaw(req)) > 0

HasUserPrompt(req) ==
    LET raw == PromptTextRaw(req)
    IN  Len(raw) > 0 /\ raw # "null" /\ raw # "undefined"

\* Variant: the default merge prompt for any upload, a single image included.
EffectivePrompt_DefaultForAnyImage(req) ==
    IF HasUserPrompt(req) THEN PromptTextRaw(req)
    ELSE IF Len(RouteFiles(req)) > 0 THEN DefaultMergePrompt
    ELSE ""

EffectivePrompt(req) ==
    IF HasUserPrompt(req) THEN PromptTextRaw(req)
    ELSE IF Len(RouteFiles(req)) > 1 THEN DefaultMergePrompt
    ELSE ""

\* fileDatas: base64 of each file's bytes and its type
FileDatas(req) ==
    LET files == RouteFiles(req)
    IN  [i \in 1..Len(files) |->
            [data |-> [base64Of |-> files[i]],
             mimeType |-> IF files[i].type # "" THEN files[i].type ELSE "image/png"]]

\* totalBytes: the sum of the buffers' byteLength
RouteTotalBytes(req) == TotalBytes(RouteFiles(req))

\* contents handed to generateContent
Contents(req) ==
    LET fds == FileDatas(req)
    IN  (IF EffectivePrompt(req) # ""
         THEN <<[text |-> EffectivePrompt(req), inlineData |-> None]>> ELSE <<>>)
        \o [i \in 1..Len(fds) |-> [text |-> "", inlineData |-> Some(fds[i])]]

\* Variant: the status of the thrown error passed on as it is.
ApiErrorResponse_RawStatus(api) ==
    ErrorResponse(IF api.message # "" THEN api.message ELSE "Failed to generate image",
                  IF api.status # None THEN api.status[1] ELSE 502)

\* Variant: only a client-error status of the thrown error is passed on.
ApiErrorResponse_ClientRangeOnly(api) ==
    ErrorResponse(IF api.message # "" THEN api.message ELSE "Failed to generate image",
                  IF api.status # None /\ api.status[1] >= 400 /\ api.status[1] < 500
                  THEN api.status[1] ELSE 502)

\* the catch around generateContent
ApiErrorResponse(api) ==
    ErrorResponse(IF api.message # "" THEN api.message ELSE "Failed to generate image",
                  IF api.status # None /\ api.status[1] >= 400 /\ api.status[1] < 600
                  THEN api.status[1] ELSE 502)

\* if (promptFeedback?.blockReason)
PromptBlocked(api) == api.blockReason # ""

BlockedResponse(api) ==
    ErrorResponse(IF api.blockReasonMessage # ""
                  THEN "Request blocked: " \o api.blockReason \o " - " \o api.blockReasonMessage
                  ELSE "Request blocked: " \o api.blockReason,
                  400)

\* response.candidates?.[0]; None when there is none
FirstCandidate(api) == IF Len(api.candidates) > 0 THEN Some(api.candidates[1]) ELSE None

FinishReason(api) == IF FirstCandidate(api) # None THEN FirstCandidate(api)[1].finishReason ELSE ""

FinishMessage(api) == IF FirstCandidate(api) # None THEN FirstCandidate(api)[1].finishMessage ELSE ""

\* ` Details: ${JSON.stringify(firstCandidate.safetyRatings)}` or ""
SafetyDetails(api) ==
    IF FirstCandidate(api) # None /\ FirstCandidate(api)[1].safetyRatings # None
    THEN " Details: " \o JSONStringify(FirstCandidate(api)[1].safetyRatings[1])
    ELSE ""

\* the finishReason test
FinishBlocked(api) ==
    FinishReason(api) # "" /\ ToUpperCase(FinishReason(api)) \in BlockingFinishReasons

FinishBlockedResponse(api) ==
    ErrorResponse("Generation blocked by policy (" \o FinishReason(api) \o ")."
                      \o SafetyDetails(api),
                  400)

\* firstCandidate?.content?.parts ?? []
Parts(api) == IF FirstCandidate(api) # None THEN FirstCandidate(api)[1].parts ELSE <<>>

\* parts.find(pred) over the parts that satisfy pred: the first as Some, None
\* when there is none
FirstOf(matches) == IF Len(matches) = 0 THEN None ELSE Some(matches[1])

HasData(p) == p.data # ""
HasText(p) == p.text # ""

ImagePart(api) == FirstOf(SelectSeq(Parts(api), HasData))

TextMsg(api) ==
    LET found == FirstOf(SelectSeq(Parts(api), HasText))
    IN  IF found # None THEN found[1].text ELSE ""

\* the reasons array of the no-image branch
Reasons(api) ==
    (IF api.blockReason # ""
     THEN <<IF api.blockReasonMessage # ""
            THEN "Blocked: " \o api.blockReason \o " - " \o api.blockReasonMessage
            ELSE "Blocked: " \o api.blockReason>>
     ELSE <<>>)
    \o (IF FinishReason(api) # "" THEN <<"Finish reason: " \o FinishReason(api)>> ELSE <<>>)
    \o (IF FinishMessage(api) # "" THEN <<"Message: " \o FinishMessage(api)>> ELSE <<>>)
    \o (IF TextMsg(api) # "" THEN <<"Model message: " \o TextMsg(api)>> ELSE <<>>)
    \o (IF SafetyDetails(api) # "" THEN <<SafetyDetails(api)>> ELSE <<>>)

NoImageResponse(api) ==
    ErrorResponse(IF Len(Reasons(api)) > 0 THEN Join(Reasons(api), " | ")
                  ELSE "Model returned no image",
                  400)

\* Variant: a route that looks for an image part before it looks at the finish reason.
Classify_ImageFirst(req, api) ==
    IF api.throws THEN ApiErrorResponse(api)
    ELSE IF PromptBlocked(api) THEN BlockedResponse(api)
    ELSE IF ImagePart(api) # None
         THEN SuccessResponse(RouteTotalBytes(req), ImagePart(api)[1].data,
                              ImagePart(api)[1].mimeType)
    ELSE IF FinishBlocked(api) THEN FinishBlockedResponse(api)
    ELSE NoImageResponse(api)

\* What the route makes of the API's outcome once generateContent has settled.
Classify(req, api) ==
    IF api.throws THEN ApiErrorResponse(api)
    ELSE IF PromptBlocked(api) THEN BlockedResponse(api)
    ELSE IF FinishBlocked(api) THEN FinishBlockedResponse(api)
    ELSE IF ImagePart(api) = None THEN NoImageResponse(api)
    ELSE SuccessResponse(RouteTotalBytes(req), ImagePart(api)[1].data,
                         ImagePart(api)[1].mimeType)

\* The route reaches generateContent for this request.
CallsApi(req, key) == req.parsable /\ key /\ Len(Contents(req)) > 0

\* Variant: a route that calls generateContent again after it has thrown.
ApiCalls_RetriesOnThrow(req, key, api) ==
    IF CallsApi(req, key) THEN (IF api.throws THEN 2 ELSE 1) ELSE 0

\* How many times the handling of req calls generateContent: the one call
\* site is in no loop and its catch returns.
ApiCalls(req, key, api) == IF CallsApi(req, key) THEN 1 ELSE 0

\* Variant: the missing-input check made before the key is read.
POST_InputCheckFirst(req, key, api) ==
    IF ~req.parsable THEN ErrorResponse("Server error", 500)
    ELSE IF Len(Contents(req)) = 0
         THEN ErrorResponse("Provide a prompt or at least one image.", 400)
    ELSE IF ~key THEN ErrorResponse("Server misconfigured: GEMINI_API_KEY missing", 500)
    ELSE Classify(req, api)

\* POST: the response to req when the key is configured or not and the API,
\* if it is called, answers api.
POST(req, key, api) ==
    IF ~req.parsable THEN ErrorResponse("Server error", 500)
    ELSE IF ~key THEN ErrorResponse("Server misconfigured: GEMINI_API_KEY missing", 500)
    ELSE IF Len(Contents(req)) = 0
         THEN ErrorResponse("Provide a prompt or at least one image.", 400)
    ELSE Classify(req, api)

(***************************************************************************)
(* The external API's outcomes the route is exercised with.                *)
(***************************************************************************)
ApiReturns(blockReason, blockReasonMessage, candidates) ==
    [throws |-> FALSE, status |-> None, message |-> "",
     blockReason |-> blockReason, blockReasonMessage |-> blockReasonMessage,
     candidates |-> candidates]

ApiThrows(status, message) ==
    [throws |-> TRUE, status |-> status, message |-> message,
     blockReason |-> "", blockReasonMessage |-> "", candidates |-> <<>>]

Candidate(finishReason, finishMessage, parts, safetyRatings) ==
    [finishReason |-> finishReason, finishMessage |-> finishMessage,
     parts |-> parts, safetyRatings |-> safetyRatings]

TextPart(text) == [text |-> text, data |-> "", mimeType |-> ""]
InlinePart(data, mimeType) == [text |-> "", data |-> data, mimeType |-> mimeType]

\* Every outcome the route is exercised with: thrown errors with and without
\* a status and a message, and returned responses over each optional field.
ThrownOutcomes ==
    { ApiThrows(st, msg) :
        st \in {None, Some(399), Some(400), Some(429), Some(599), Some(600)},
        msg \in {"", "Quota exceeded"} }

PartLists ==
    { <<>>,
      <<TextPart("I cannot draw that")>>,
      <<TextPart("Here it is"), InlinePart("AAAA", "image/jpeg")>>,
      <<InlinePart("BBBB", "")>>,
      <<InlinePart("CCCC", "image/webp"), InlinePart("DDDD", "image/png")>> }

RatingLists ==
    { None, Some(<<>>),
      Some(<<[category |-> "HARM_CATEGORY_HARASSMENT", probability |-> "HIGH"]>>) }

CandidateLists ==
    { <<>>,
      <<Candidate("STOP", "", <<TextPart("Nothing to show")>>, None),
        Candidate("STOP", "", <<InlinePart("EEEE", "image/png")>>, None)>> } \cup
    { <<Candidate(fr, fm, parts, sr)>> :
        fr \in {"", "STOP", "SAFETY", "other"}, fm \in {"", "Filtered"},
        parts \in PartLists, sr \in RatingLists }

ReturnedOutcomes ==
    { ApiReturns(b[1], b[2], cands) :
        b \in { <<"", "">>, <<"SAFETY", "">>, <<"SAFETY", "Prompt rejected">> },
        cands \in CandidateLists }

AllApiOutcomes == ThrownOutcomes \cup ReturnedOutcomes

\* The outcomes the widget's submissions meet.
ApiOutcomes ==
    { ApiReturns("", "", <<Candidate("STOP", "", <<TextPart("Here it is"),
                                                    InlinePart("AAAA", "image/jpeg")>>, None)>>),
      ApiReturns("", "", <<Candidate("STOP", "", <<InlinePart("BBBB", "")>>, None)>>),
      ApiReturns("", "", <<Candidate("STOP", "", <<TextPart("I cannot draw that")>>, None)>>),
      ApiThrows(Some(429), "Quota exceeded") }

(***************************************************************************)
(* What a fetch settles with: a rejection (network failure), or a response *)
(* [status, body] whose body is None when it is not JSON.                  *)
(***************************************************************************)
Rejected(message) == [rejected |-> TRUE, message |-> message, status |-> 0, body |-> None]
Responded(status, body) == [rejected |-> FALSE, message |-> "", status |-> status, body |-> body]

\* Responses that come from in front of the route (a proxy, the platform).
GatewayResponses ==
    { Responded(504, None),                \* an HTML error page
      Responded(200, None),                \* a page that is not JSON, status 200
      Responded(502, Some([ok |-> FALSE, size |-> None, imageBase64 |-> "", mimeType |-> "",
                           error |-> ""])) }  \* a JSON body without an error field

MsgFailedToFetch == "Failed to fetch"
MsgNotJSON == "Unexpected token '<', \"<!DOCTYPE \"... is not valid JSON"

\* Bound on the fetches outstanding at once in the model.
MaxInFlight == 2

(***************************************************************************)
(* The widget's handlers.                                                  *)
(***************************************************************************)
\* The page takes user events: the native file dialog is modal.
PageInteractive == ~dialogOpen

\* The drop zone is rendered: selectedFiles.length === 0
DropZoneShown == Len(selectedFiles) = 0

\* "Add images" is rendered and not disabled
AddImagesEnabled == Len(selectedFiles) > 0 /\ ~(Len(selectedFiles) >= MAX_IMAGES)

\* "Clear images" is rendered
ClearShown == Len(selectedFiles) > 0 \/ resultImage # None

\* Variant: a submit button that is never disabled.
SubmitEnabled_Always == TRUE

\* The submit button is not disabled
SubmitEnabled == ~isSubmitting

triggerFileDialog ==
    /\ PageInteractive /\ DropZoneShown
    /\ dialogOpen' = TRUE
    /\ UNCHANGED <<selectedFiles, previewUrls, errorMessage, instructions, isSubmitting,
                   submitError, submitSuccess, resultImage, appendNextSelectionRef,
                   inflight, lastSubmission, resultOrigin>>

triggerAddMoreDialog ==
    /\ PageInteractive /\ AddImagesEnabled
    /\ appendNextSelectionRef' = TRUE
    /\ dialogOpen' = TRUE
    /\ UNCHANGED <<selectedFiles, previewUrls, errorMessage, instructions, isSubmitting,
                   submitError, submitSuccess, resultImage,
                   inflight, lastSubmission, resultOrigin>>

\* The user dismisses the dialog: no change event.
cancelFileDialog ==
    /\ dialogOpen
    /\ dialogOpen' = FALSE
    /\ UNCHANGED <<selectedFiles, previewUrls, errorMessage, instructions, isSubmitting,
                   submitError, submitSuccess, resultImage, appendNextSelectionRef,
                   inflight, lastSubmission, resultOrigin>>

handleChange(files) ==
    /\ dialogOpen
    /\ UNCHANGED <<instructions, isSubmitting, submitError, submitSuccess, inflight>>
    /\ SelectFilesCall(Some(files), appendNextSelectionRef \/ Len(selectedFiles) > 0)
    /\ appendNextSelectionRef' = FALSE
    /\ dialogOpen' = FALSE

handleDrop(files) ==
    /\ PageInteractive /\ DropZoneShown
    /\ UNCHANGED <<instructions, isSubmitting, submitError, submitSuccess,
                   appendNextSelectionRef, dialogOpen, inflight>>
    /\ SelectFilesCall(Some(files), Len(selectedFiles) > 0)

\* Variant: a Clear that forgets setPreviewUrls([]).
handleClear_KeepsPreviews ==
    /\ PageInteractive /\ ClearShown
    /\ selectedFiles' = <<>>
    /\ resultImage' = None
    /\ submitError' = None
    /\ submitSuccess' = None
    /\ errorMessage' = None
    /\ resultOrigin' = "none"
    /\ lastSubmission' = IF lastSubmission = "pending" THEN "outdated" ELSE lastSubmission
    /\ UNCHANGED <<previewUrls, instructions, isSubmitting, appendNextSelectionRef,
                   dialogOpen, inflight>>

handleClear ==
    /\ PageInteractive /\ ClearShown
    /\ selectedFiles' = <<>>
    /\ previewUrls' = <<>>
    /\ resultImage' = None
    /\ submitError' = None
    /\ submitSuccess' = None
    /\ errorMessage' = None
    /\ resultOrigin' = "none"
    /\ lastSubmission' = IF lastSubmission = "pending" THEN "outdated" ELSE lastSubmission
    /\ UNCHANGED <<instructions, isSubmitting, appendNextSelectionRef, dialogOpen,
                   inflight>>

\* the textarea's onChange
setInstructions(value) ==
    /\ PageInteractive
    /\ value # instructions
    /\ instructions' = value
    /\ UNCHANGED <<selectedFiles, previewUrls, errorMessage, isSubmitting, submitError,
                   submitSuccess, resultImage, appendNextSelectionRef, dialogOpen,
                   inflight, lastSubmission, resultOrigin>>

\* Variant: a submit that insists on an image.
MissingInput_RequiresImage == Len(selectedFiles) = 0

\* Variant: the prompt tested without trim().
MissingInput_NoTrim == Len(selectedFiles) = 0 /\ instructions = ""

\* selectedFiles.length === 0 && !instructions.trim()
MissingInput == Len(selectedFiles) = 0 /\ Trim(instructions) = ""

\* A request and what becomes of it: no response yet, and of the route's
\* handling nothing.  logged: the request is kept on record once answered.
Exchange(req, logged) ==
    [req |-> Some(req), resp |-> None, api |-> None, calls |-> 0, key |-> None,
     logged |-> logged]

\* the FormData of handleSubmit
FormData ==
    [parsable |-> TRUE,
     prompt   |-> Some(instructions),
     files    |-> selectedFiles,
     file     |-> IF Len(selectedFiles) > 0 THEN Some(selectedFiles[1]) ELSE None]

\* Variant: a submit that skips setSubmitSuccess(null).
handleSubmit_KeepsSuccess ==
    /\ PageInteractive /\ SubmitEnabled
    /\ Len(inflight) < MaxInFlight
    /\ IF MissingInput
       THEN /\ submitError' = Some(MsgMissingInput)
            /\ UNCHANGED <<isSubmitting, inflight, lastSubmission, resultOrigin>>
       ELSE /\ submitError' = None
            /\ isSubmitting' = TRUE
            /\ inflight' = Append(inflight, Exchange(FormData, FALSE))
            /\ lastSubmission' = "pending"
            /\ resultOrigin' = IF resultImage = None THEN "none" ELSE "earlier"
    /\ UNCHANGED <<selectedFiles, previewUrls, errorMessage, instructions, resultImage,
                   submitSuccess, appendNextSelectionRef, dialogOpen>>

\* handleSubmit up to its await of fetch
handleSubmit ==
    /\ PageInteractive /\ SubmitEnabled
    /\ Len(inflight) < MaxInFlight
    /\ submitSuccess' = None
    /\ IF MissingInput
       THEN /\ submitError' = Some(MsgMissingInput)
            /\ UNCHANGED <<isSubmitting, inflight, lastSubmission, resultOrigin>>
       ELSE /\ submitError' = None
            /\ isSubmitting' = TRUE
            /\ inflight' = Append(inflight, Exchange(FormData, FALSE))
            /\ lastSubmission' = "pending"
            /\ resultOrigin' = IF resultImage = None THEN "none" ELSE "earlier"
    /\ UNCHANGED <<selectedFiles, previewUrls, errorMessage, instructions, resultImage,
                   appendNextSelectionRef, dialogOpen>>

\* Variant: the bare base64 payload instead of a data URL.
DataUrl_BarePayload(body) == body.imageBase64

\* `data:${type};base64,${data.imageBase64}`
DataUrl(body) ==
    "data:" \o (IF body.mimeType # "" THEN body.mimeType ELSE "image/png")
        \o ";base64," \o body.imageBase64

\* response.ok
ResponseOk(r) == r.status >= 200 /\ r.status <= 299

\* Variant: every failed response reported with the generic message.
Thrown_AlwaysGeneric(r) ==
    IF r.rejected THEN Some(r.message)
    ELSE IF ~ResponseOk(r) THEN Some(MsgUploadFailed)
    ELSE IF r.body = None THEN Some(MsgNotJSON)
    ELSE None

\* The error handleSubmit's catch displays, None when nothing is thrown.
Thrown(r) ==
    IF r.rejected THEN Some(r.message)
    ELSE IF ~ResponseOk(r)
         THEN Some(IF r.body # None /\ r.body[1].error # ""
                   THEN r.body[1].error ELSE MsgUploadFailed)
    ELSE IF r.body = None THEN Some(MsgNotJSON)
    ELSE None

\* Variant: setIsSubmitting(false) at the end of the try block, not in a finally.
handleSubmitSettled_NoFinally(i) ==
    /\ inflight[i].resp # None
    /\ LET r == inflight[i].resp[1]
       IN  IF Thrown(r) # None
           THEN /\ submitError' = Thrown(r)
                /\ UNCHANGED <<submitSuccess, resultImage, resultOrigin, isSubmitting>>
           ELSE /\ submitSuccess' = Some(MsgGenerated)
                /\ IF r.body[1].imageBase64 # ""
                   THEN /\ resultImage' = Some(DataUrl(r.body[1]))
                        /\ resultOrigin' = "latest"
                   ELSE UNCHANGED <<resultImage, resultOrigin>>
                /\ isSubmitting' = FALSE
                /\ UNCHANGED submitError
    /\ inflight' = [j \in 1..(Len(inflight) - 1) |->
                        IF j < i THEN inflight[j] ELSE inflight[j + 1]]
    /\ lastSubmission' = "done"
    /\ UNCHANGED <<selectedFiles, previewUrls, errorMessage, instructions,
                   appendNextSelectionRef, dialogOpen>>

\* handleSubmit from the settlement of its fetch to the end of its finally
handleSubmitSettled(i) ==
    /\ inflight[i].resp # None
    /\ LET r == inflight[i].resp[1]
       IN  IF Thrown(r) # None
           THEN /\ submitError' = Thrown(r)
                /\ UNCHANGED <<submitSuccess, resultImage, resultOrigin>>
           ELSE /\ submitSuccess' = Some(MsgGenerated)
                /\ IF r.body[1].imageBase64 # ""
                   THEN /\ resultImage' = Some(DataUrl(r.body[1]))
                        /\ resultOrigin' = "latest"
                   ELSE UNCHANGED <<resultImage, resultOrigin>>
                /\ UNCHANGED submitError
    /\ isSubmitting' = FALSE
    /\ inflight' = [j \in 1..(Len(inflight) - 1) |->
                        IF j < i THEN inflight[j] ELSE inflight[j + 1]]
    /\ lastSubmission' = "done"
    /\ UNCHANGED <<selectedFiles, previewUrls, errorMessage, instructions,
                   appendNextSelectionRef, dialogOpen>>

(***************************************************************************)
(* The network and the server.                                             *)
(***************************************************************************)
\* The fetch of inflight[i] settles with r.  The widget's FormData is gone
\* with it; a request that is logged stays on record.  The rest is history of
\* the route's handling: api is the outcome of generateContent when the route
\* called it, calls the number of times it called it, key whether
\* GEMINI_API_KEY was set.
Settle(i, r, api, calls, key) ==
    /\ inflight[i].resp = None
    /\ inflight' = [inflight EXCEPT ![i] =
                        [req |-> IF inflight[i].logged THEN inflight[i].req ELSE None,
                         resp |-> Some(r), api |-> api, calls |-> calls, key |-> key,
                         logged |-> inflight[i].logged]]
    /\ UNCHANGED <<selectedFiles, previewUrls, errorMessage, instructions, isSubmitting,
                   submitError, submitSuccess, resultImage, appendNextSelectionRef,
                   dialogOpen, lastSubmission, resultOrigin>>

\* The route handles the request and its response reaches the browser; key is
\* whether process.env.GEMINI_API_KEY is set when the route reads it.
RouteResponds(i, key, api) ==
    inflight[i].resp = None /\
    LET r == POST(inflight[i].req[1], key, api)
    IN  Settle(i, Responded(r.status, Some(r.body)),
               IF CallsApi(inflight[i].req[1], key) THEN Some(api) ELSE None,
               ApiCalls(inflight[i].req[1], key, api), Some(key))

\* The request never gets an HTTP response.
FetchRejects(i) == Settle(i, Rejected(MsgFailedToFetch), None, 0, None)

\* Something in front of the route answers instead of it.
GatewayResponds(i, r) == Settle(i, r, None, 0, None)

Init ==
    /\ selectedFiles = <<>>
    /\ previewUrls = <<>>
    /\ errorMessage = None
    /\ instructions = ""
    /\ isSubmitting = FALSE
    /\ submitError = None
    /\ submitSuccess = None
    /\ resultImage = None
    /\ appendNextSelectionRef = FALSE
    /\ dialogOpen = FALSE
    /\ inflight = <<>>
    /\ lastSubmission = "none"
    /\ resultOrigin = "none"

Next ==
    \/ triggerFileDialog
    \/ triggerAddMoreDialog
    \/ cancelFileDialog
    \/ \E files \in FileLists : handleChange(files)
    \/ \E files \in DropLists : handleDrop(files)
    \/ handleClear
    \/ \E value \in Prompts : setInstructions(value)
    \/ handleSubmit
    \/ \E i \in DOMAIN inflight : handleSubmitSettled(i)
    \/ \E i \in DOMAIN inflight, key \in BOOLEAN, api \in ApiOutcomes : RouteResponds(i, key, api)
    \/ \E i \in DOMAIN inflight : FetchRejects(i)
    \/ \E i \in DOMAIN inflight, r \in GatewayResponses : GatewayResponds(i, r)

Spec == Init /\ [][Next]_vars

(***************************************************************************)
(* The same machine with its scheduling: a fetch that was issued settles   *)
(* in the end, one way or another, and the continuation of handleSubmit    *)
(* runs once its fetch has settled.                                        *)
(***************************************************************************)
FetchSettles ==
    \E i \in DOMAIN inflight :
        \/ \E key \in BOOLEAN, api \in ApiOutcomes : RouteResponds(i, key, api)
        \/ FetchRejects(i)
        \/ \E r \in GatewayResponses : GatewayResponds(i, r)

ContinuationRuns == \E i \in DOMAIN inflight : handleSubmitSettled(i)

SpecLive ==
    Init /\ [][Next]_vars /\ WF_vars(FetchSettles) /\ WF_vars(ContinuationRuns)

(***************************************************************************)
(* The submission path alone, from a widget that already holds a selection *)
(* and a prompt, against every outcome of the external API.                *)
(***************************************************************************)
\* Selections the widget reaches by one drop.
SubmittedSelections == { <<>>, <<Med, Small(10)>>, Smalls(1, 9) }

InitRoute ==
    /\ selectedFiles \in SubmittedSelections
    /\ previewUrls = [i \in 1..Len(selectedFiles) |-> CreateObjectURL(selectedFiles[i])]
    /\ errorMessage = None
    /\ instructions \in Prompts
    /\ isSubmitting = FALSE
    /\ submitError = None
    /\ submitSuccess = None
    /\ resultImage = None
    /\ appendNextSelectionRef = FALSE
    /\ dialogOpen = FALSE
    /\ inflight = <<>>
    /\ lastSubmission = "none"
    /\ resultOrigin = "none"

NextRoute ==
    \/ handleSubmit
    \/ \E i \in DOMAIN inflight, key \in BOOLEAN, api \in AllApiOutcomes :
          RouteResponds(i, key, api)
    \/ \E i \in DOMAIN inflight : FetchRejects(i)
    \/ \E i \in DOMAIN inflight, r \in GatewayResponses : GatewayResponds(i, r)
    \/ \E i \in DOMAIN inflight : handleSubmitSettled(i)

SpecRoute == InitRoute /\ [][NextRoute]_vars

(***************************************************************************)
(* The route alone, as an HTTP endpoint: a client that posts any request,  *)
(* one at a time, and reads the response; its requests are logged.  The    *)
(* widget stays as constructed.                                            *)
(***************************************************************************)
Blank == File("blank.png", 0, 8000, "image/png")

\* The requests a client may post: any "prompt" entry or none, "files"
\* entries, a "file" entry, and a body that is not form data at all.
Requests ==
    { [parsable |-> TRUE, prompt |-> p, files |-> fs, file |-> f] :
        p \in { None, Some(""), Some("  "), Some(" cat\n"), Some("null"),
                Some(" undefined ") },
        fs \in { <<>>, <<Med>>, <<Med, Small(10)>>, <<Untyped>>, <<Blank>> },
        f \in { None, Some(Med) } }
    \cup { [parsable |-> FALSE, prompt |-> None, files |-> <<>>, file |-> None] }

\* A client posts req and waits for the response before it posts again.
ClientPosts(req) ==
    /\ inflight = <<>>
    /\ inflight' = <<Exchange(req, TRUE)>>
    /\ UNCHANGED <<selectedFiles, previewUrls, errorMessage, instructions, isSubmitting,
                   submitError, submitSuccess, resultImage, appendNextSelectionRef,
                   dialogOpen, lastSubmission, resultOrigin>>

\* The client has read the response.
ClientReceives ==
    /\ inflight # <<>>
    /\ inflight[1].resp # None
    /\ inflight' = <<>>
    /\ UNCHANGED <<selectedFiles, previewUrls, errorMessage, instructions, isSubmitting,
                   submitError, submitSuccess, resultImage, appendNextSelectionRef,
                   dialogOpen, lastSubmission, resultOrigin>>

NextEndpoint ==
    \/ \E req \in Requests : ClientPosts(req)
    \/ \E i \in DOMAIN inflight, key \in BOOLEAN, api \in AllApiOutcomes :
          RouteResponds(i, key, api)
    \/ ClientReceives

SpecEndpoint == Init /\ [][NextEndpoint]_vars

\* The step answers the request inflight[i]: the route has handled it.
Answered(i) ==
    /\ i \in DOMAIN inflight'
    /\ inflight[i].resp = None
    /\ inflight'[i].resp # None

(***************************************************************************)
(* Properties.                                                             *)
(***************************************************************************)
\* A step that is a call of selectFiles(files, ...) from handleChange or handleDrop.
SelectsFiles(files) == handleChange(files) \/ handleDrop(files)

\* The merged, de-duplicated list such a call builds.  Both handlers pass
\* append = true whenever the selection is not empty.
MergedWith(files) == Dedupe(selectedFiles \o SelectSeq(files, IsImage))

\* The first MAX_IMAGES entries of a list, the whole list when it is shorter.
FirstMaxImages(list) ==
    [i \in 1..(IF Len(list) < MAX_IMAGES THEN Len(list) ELSE MAX_IMAGES) |-> list[i]]

\* A string with no character other than white space.
IsBlank(s) == \A i \in 1..Len(s) : IsSpace(SubSeq(s, i, i))

\* The requests issued and not yet answered or failed.
Outstanding == { i \in DOMAIN inflight : inflight[i].resp = None }

\* C1: in every reachable state the selection holds at most MAX_IMAGES files
\* and their sizes sum to at most MAX_TOTAL_BYTES.
C1_SelectionWithinLimits ==
    /\ Len(selectedFiles) <= MAX_IMAGES
    /\ TotalBytes(selectedFiles) <= MAX_TOTAL_BYTES

\* C1 witness: a selection that sits exactly on both limits.
C1_Witness ==
    /\ Len(selectedFiles) = MAX_IMAGES
    /\ TotalBytes(selectedFiles) = MAX_TOTAL_BYTES

\* C2 as stated: whenever the merged list of a selectFiles call has more than
\* MAX_IMAGES entries, the selection afterwards is its first MAX_IMAGES entries
\* and the error message is the count warning.
C2_Original ==
    [][\A files \in DropLists :
          (SelectsFiles(files) /\ Len(MergedWith(files)) > MAX_IMAGES)
          => /\ selectedFiles' = FirstMaxImages(MergedWith(files))
             /\ errorMessage' = Some(MsgMaxImages)]_vars

\* C2 amended: whenever the merged list of a selectFiles call has more than
\* MAX_IMAGES entries and its first MAX_IMAGES entries fit the byte budget, the
\* selection afterwards is those entries and the error message is the count
\* warning.
C2_TruncatesWhenWithinBudget ==
    [][\A files \in DropLists :
          (/\ SelectsFiles(files)
           /\ Len(MergedWith(files)) > MAX_IMAGES
           /\ TotalBytes(FirstMaxImages(MergedWith(files))) <= MAX_TOTAL_BYTES)
          => /\ selectedFiles' = FirstMaxImages(MergedWith(files))
             /\ errorMessage' = Some(MsgMaxImages)]_vars

\* C2 witness: a truncated selection with the count warning displayed.
C2_Witness ==
    /\ errorMessage = Some(MsgMaxImages)
    /\ Len(selectedFiles) = MAX_IMAGES

\* What a rejection for size leaves of the selection and the banner.
RejectedForSize ==
    /\ selectedFiles' = selectedFiles
    /\ previewUrls' = previewUrls
    /\ errorMessage' = Some(MsgTotalSize)

\* C3 as stated: if the existing selection merged with the newly chosen images
\* exceeds MAX_TOTAL_BYTES, selectFiles leaves selectedFiles and previewUrls as
\* they were and sets the size message.
C3_Original ==
    [][\A files \in DropLists :
          (SelectsFiles(files) /\ TotalBytes(MergedWith(files)) > MAX_TOTAL_BYTES)
          => RejectedForSize]_vars

\* C3 amended: if the merged list, cut to its first MAX_IMAGES entries, exceeds
\* MAX_TOTAL_BYTES, selectFiles leaves selectedFiles and previewUrls as they
\* were and sets the size message.
C3_RejectsWhenTruncatedOverBudget ==
    [][\A files \in DropLists :
          (SelectsFiles(files)
           /\ TotalBytes(FirstMaxImages(MergedWith(files))) > MAX_TOTAL_BYTES)
          => RejectedForSize]_vars

\* C3 witness: the size message displayed over a selection that was kept.
C3_Witness ==
    /\ errorMessage = Some(MsgTotalSize)
    /\ Len(selectedFiles) > 0

\* C4 as stated: a selection rejected for size changes nothing but the error
\* message: selection, previews, result image and submit messages stay.
C4_Original ==
    [][\A files \in DropLists :
          (SelectsFiles(files)
           /\ TotalBytes(FirstMaxImages(MergedWith(files))) > MAX_TOTAL_BYTES)
          => /\ selectedFiles' = selectedFiles
             /\ previewUrls' = previewUrls
             /\ resultImage' = resultImage
             /\ submitSuccess' = submitSuccess
             /\ submitError' = submitError]_vars

\* C4 amended: a selection rejected for size leaves selection, previews and
\* both submit messages as they were, and clears the result image.
C4_RejectionClearsOnlyResult ==
    [][\A files \in DropLists :
          (SelectsFiles(files)
           /\ TotalBytes(FirstMaxImages(MergedWith(files))) > MAX_TOTAL_BYTES)
          => /\ selectedFiles' = selectedFiles
             /\ previewUrls' = previewUrls
             /\ submitSuccess' = submitSuccess
             /\ submitError' = submitError
             /\ resultImage' = None]_vars

\* C4 witness: after a successful generation, a selection was rejected for
\* size: the success message stays, the result image is gone.
C4_Witness ==
    /\ errorMessage = Some(MsgTotalSize)
    /\ submitSuccess = Some(MsgGenerated)
    /\ resultImage = None

\* C5: handleSubmit with an empty selection and a blank prompt sets the submit
\* error, issues no request and leaves isSubmitting false.
C5_BlankSubmitRejected ==
    [][(handleSubmit /\ Len(selectedFiles) = 0 /\ IsBlank(instructions))
          => /\ submitError' = Some(MsgMissingInput)
             /\ inflight' = inflight
             /\ isSubmitting' = FALSE]_vars

\* C5 witness: the submit error displayed over a white-space prompt, nothing sent.
C5_Witness ==
    /\ submitError = Some(MsgMissingInput)
    /\ instructions = "  "
    /\ Len(selectedFiles) = 0
    /\ inflight = <<>>

\* C6: at most one request is outstanding at any time.
C6_SingleInFlight == Cardinality(Outstanding) <= 1

\* C6 witness: a request is outstanding and the widget is busy.
C6_Witness == Cardinality(Outstanding) = 1 /\ isSubmitting

\* The settled fetch is a successful response carrying an image payload.
SuccessWithImage(r) ==
    /\ ~r.rejected
    /\ r.status >= 200 /\ r.status <= 299
    /\ r.body # None
    /\ r.body[1].imageBase64 # ""

\* The data URL of a payload: its declared type, image/png when it declares none.
PayloadUrl(body) ==
    IF body.mimeType = ""
    THEN "data:image/png;base64," \o body.imageBase64
    ELSE "data:" \o body.mimeType \o ";base64," \o body.imageBase64

\* C7 as stated: when a submission completes with a successful response carrying
\* an image payload, the result image is the data URL of that payload and both
\* submitError and errorMessage are null.
C7_Original ==
    [][\A i \in DOMAIN inflight :
          (handleSubmitSettled(i) /\ SuccessWithImage(inflight[i].resp[1]))
          => /\ resultImage' = Some(PayloadUrl(inflight[i].resp[1].body[1]))
             /\ submitError' = None
             /\ errorMessage' = None]_vars

\* C7 amended: when a submission completes with a successful response carrying
\* an image payload, the result image is the data URL of that payload and
\* submitError is null; the selection errorMessage is left as it was.
C7_SuccessShowsImage ==
    [][\A i \in DOMAIN inflight :
          (handleSubmitSettled(i) /\ SuccessWithImage(inflight[i].resp[1]))
          => /\ resultImage' = Some(PayloadUrl(inflight[i].resp[1].body[1]))
             /\ submitError' = None
             /\ errorMessage' = errorMessage]_vars

\* C7 witness: a generated image displayed next to a selection error that was
\* shown before the response arrived.
C7_Witness ==
    /\ resultImage = Some("data:image/png;base64,BBBB")
    /\ submitSuccess = Some(MsgGenerated)
    /\ submitError = None
    /\ errorMessage = Some(MsgMaxImages)

\* C8 as stated: once a submission has completed, the widget never shows the
\* result image of an earlier submission.
C8_Original == lastSubmission = "done" => resultOrigin # "earlier"

\* C9 as stated: Clear empties selectedFiles and previewUrls, and so does the
\* completion of a submission.
C9_Original ==
    [][/\ handleClear => (selectedFiles' = <<>> /\ previewUrls' = <<>>)
       /\ \A i \in DOMAIN inflight :
            handleSubmitSettled(i) => (selectedFiles' = <<>> /\ previewUrls' = <<>>)]_vars

\* C9 amended: Clear empties selectedFiles and previewUrls and is the only step
\* that empties a selection; a submission, from its start to its completion,
\* leaves both as they were.
C9_OnlyClearEmpties ==
    [][/\ handleClear => (selectedFiles' = <<>> /\ previewUrls' = <<>>)
       /\ (selectedFiles # <<>> /\ selectedFiles' = <<>>) => handleClear
       /\ (previewUrls # <<>> /\ previewUrls' = <<>>) => handleClear
       /\ handleSubmit => UNCHANGED <<selectedFiles, previewUrls>>
       /\ \A i \in DOMAIN inflight :
            handleSubmitSettled(i) => UNCHANGED <<selectedFiles, previewUrls>>]_vars

\* C9 witness: a submission has completed and the selection is still there.
C9_Witness ==
    /\ lastSubmission = "done"
    /\ Len(selectedFiles) > 0
    /\ Len(previewUrls) = Len(selectedFiles)

\* sub occurs in s
Contains(s, sub) ==
    \E i \in 1..(Len(s) - Len(sub) + 1) : SubSeq(s, i, i + Len(sub) - 1) = sub

\* The reason fields a response carries: block reason and its message, finish
\* reason, finish message, model text, safety details.
ReasonFields(api) ==
    { v \in { api.blockReason, api.blockReasonMessage, FinishReason(api),
              FinishMessage(api), TextMsg(api), SafetyDetails(api) } : v # "" }

\* C10 as stated: when the API's response contains no image part, the route's
\* error message carries every reason field present in the response, and it is
\* "Model returned no image" when none is present.
C10_Original ==
    \A i \in DOMAIN inflight :
        (/\ inflight[i].api # None
         /\ ~inflight[i].api[1].throws
         /\ ImagePart(inflight[i].api[1]) = None)
        => LET error == inflight[i].resp[1].body[1].error
               fields == ReasonFields(inflight[i].api[1])
           IN  IF fields = {} THEN error = "Model returned no image"
               ELSE \A v \in fields : Contains(error, v)

\* The exchanges in which the route called generateContent and it returned.
ApiReturned == { i \in DOMAIN inflight : inflight[i].api # None /\ ~inflight[i].api[1].throws }

\* The finish reason is one of the blocking ones, letter case aside.
IsBlockingReason(reason) ==
    reason # "" /\ \E b \in BlockingFinishReasons : ToUpperCase(reason) = ToUpperCase(b)

\* The parts of the first candidate that carry image data, in order.
ImageParts(api) ==
    IF Len(api.candidates) = 0 THEN <<>>
    ELSE LET parts == api.candidates[1].parts
             Before(k) == Cardinality({ j \in 1..k : parts[j].data # "" })
             n == Before(Len(parts))
         IN  [m \in 1..n |->
                 parts[CHOOSE k \in 1..Len(parts) : parts[k].data # "" /\ Before(k) = m]]

\* The response is an error of the given status whose message starts with prefix.
IsErrorWith(r, status, prefix) ==
    /\ r.status = status
    /\ r.body # None
    /\ ~r.body[1].ok
    /\ r.body[1].imageBase64 = ""
    /\ StartsWith(r.body[1].error, prefix)

\* C11: an API response is classified in a fixed priority.  A prompt block
\* reason gives 400 "Request blocked: ..."; otherwise a blocking finish reason
\* of the first candidate (compared without regard to case) gives 400
\* "Generation blocked by policy (...)", image part or not; otherwise a first
\* candidate without an image part gives an error; only what is left gives a
\* success body.
C11_ClassifiedInPriority ==
    \A i \in ApiReturned :
        LET api == inflight[i].api[1]
            r == inflight[i].resp[1]
            reason == IF Len(api.candidates) = 0 THEN "" ELSE api.candidates[1].finishReason
        IN  IF api.blockReason # ""
            THEN IsErrorWith(r, 400, "Request blocked: " \o api.blockReason)
            ELSE IF IsBlockingReason(reason)
            THEN IsErrorWith(r, 400, "Generation blocked by policy (" \o reason \o ")")
            ELSE IF Len(ImageParts(api)) = 0
            THEN /\ IsErrorWith(r, 400, "")
                 /\ r.body[1].error # ""
                 /\ ~StartsWith(r.body[1].error, "Request blocked")
                 /\ ~StartsWith(r.body[1].error, "Generation blocked")
            ELSE r.status = 200 /\ r.body[1].ok /\ r.body[1].error = ""

\* C11 witness: a first candidate that finished with "other" and carries an
\* image part was answered with the policy error.
C11_Witness ==
    \E i \in ApiReturned :
        /\ inflight[i].api[1].blockReason = ""
        /\ inflight[i].api[1].candidates # <<>>
        /\ inflight[i].api[1].candidates[1].finishReason = "other"
        /\ Len(ImageParts(inflight[i].api[1])) > 0
        /\ inflight[i].resp[1].status = 400
        /\ StartsWith(inflight[i].resp[1].body[1].error, "Generation blocked by policy (other).")

\* The rest of what C12 says of a success body: the data of the first image
\* part of the first candidate and its declared type, image/png when it
\* declares none.
CarriesFirstImage(body, api) ==
    /\ body.ok
    /\ body.imageBase64 = ImageParts(api)[1].data
    /\ body.mimeType = (IF ImageParts(api)[1].mimeType = "" THEN "image/png"
                        ELSE ImageParts(api)[1].mimeType)

\* C12 as stated: every success response carries ok = true, size equal to the
\* total byte count of the uploaded images, imageBase64 equal to the data of the
\* first image part of the first candidate, and that part's declared type.
C12_Original ==
    [][\A i \in DOMAIN inflight :
          (Answered(i) /\ inflight'[i].resp[1].body[1].ok)
          => /\ CarriesFirstImage(inflight'[i].resp[1].body[1], inflight'[i].api[1])
             /\ inflight'[i].resp[1].body[1].size
                    = Some(TotalBytes(RouteFiles(inflight[i].req[1])))]_vars

\* C12 amended: every success response carries ok, imageBase64 and mimeType as
\* stated; it carries size, equal to the total byte count of the uploaded
\* images, when that count is not zero, and no size field when it is zero.
C12_SuccessBody ==
    [][\A i \in DOMAIN inflight :
          (Answered(i) /\ inflight'[i].resp[1].body[1].ok)
          => /\ CarriesFirstImage(inflight'[i].resp[1].body[1], inflight'[i].api[1])
             /\ inflight'[i].resp[1].body[1].size
                    = (IF TotalBytes(RouteFiles(inflight[i].req[1])) = 0 THEN None
                       ELSE Some(TotalBytes(RouteFiles(inflight[i].req[1]))))]_vars

\* C12 witness: a success body without a size field, carrying the first of two
\* image parts.
C12_Witness ==
    \E i \in ApiReturned :
        /\ inflight[i].resp[1].body[1].ok
        /\ inflight[i].resp[1].body[1].size = None
        /\ inflight[i].resp[1].body[1].imageBase64 = "CCCC"
        /\ inflight[i].resp[1].body[1].mimeType = "image/webp"

\* A well-formed answer of the route: JSON, and either a success body with
\* status 200 and an image payload, or an error body with a message and a
\* status in 400..599.
IsRouteResponse(r) ==
    /\ ~r.rejected
    /\ r.body # None
    /\ \/ /\ r.body[1].ok
          /\ r.status = 200
          /\ r.body[1].imageBase64 # ""
          /\ r.body[1].error = ""
       \/ /\ ~r.body[1].ok
          /\ r.body[1].error # ""
          /\ r.body[1].imageBase64 = ""
          /\ r.status >= 400 /\ r.status <= 599

\* C13: every request gets exactly one response, a JSON body that is either a
\* success (ok, image payload, status 200) or an error with a message and a
\* status in 400..599.  The route can answer every pending request whatever the
\* key and the API do, every answer is well formed, and an answer once given is
\* not replaced.
C13_OneWellFormedResponse ==
    /\ [](\A i \in DOMAIN inflight :
            IF inflight[i].resp = None
            THEN \A key \in BOOLEAN, api \in AllApiOutcomes :
                    IsRouteResponse(LET r == POST(inflight[i].req[1], key, api)
                                    IN  Responded(r.status, Some(r.body)))
            ELSE IsRouteResponse(inflight[i].resp[1]))
    /\ [][\A i \in DOMAIN inflight :
            /\ inflight[i].resp = None
                  => (i \in DOMAIN inflight' /\ inflight'[i].resp # None)
            /\ inflight[i].resp # None
                  => (i \notin DOMAIN inflight' \/ inflight'[i] = inflight[i])]_vars

\* C13 witness: the API threw an error whose status is outside 400..599 and the
\* request was answered with 502 and the error's message.
C13_Witness ==
    \E i \in DOMAIN inflight :
        /\ inflight[i].api # None
        /\ inflight[i].api[1].throws
        /\ inflight[i].api[1].status = Some(600)
        /\ inflight[i].resp[1].status = 502
        /\ inflight[i].resp[1].body[1].error = "Quota exceeded"

\* The exchanges on record in which the route called generateContent.
Forwarded == { i \in DOMAIN inflight : inflight[i].req # None /\ inflight[i].calls > 0 }

\* The text parts of what the route hands to generateContent, in order.
ForwardedTexts(req) ==
    LET texts == SelectSeq(Contents(req), LAMBDA c : c.inlineData = None)
    IN  [k \in 1..Len(texts) |-> texts[k].text]

\* The images the route takes from the request: its "files" entries, or its
\* "file" entry when it has none.
UploadedImages(req) ==
    IF req.files # <<>> THEN req.files
    ELSE IF req.file # None THEN <<req.file[1]>> ELSE <<>>

\* The request carries a prompt that is not blank.
PromptTyped(req) == req.prompt # None /\ ~IsBlank(req.prompt[1])

\* The request carries a prompt the route takes as the user's: not blank, and
\* not the word null or undefined.
PromptUsable(req) ==
    /\ PromptTyped(req)
    /\ Trim(req.prompt[1]) \notin {"null", "undefined"}

\* What C14 says is forwarded, given whether the user supplied a prompt.
ForwardsPrompt(req, supplied) ==
    IF supplied THEN ForwardedTexts(req) = <<Trim(req.prompt[1])>>
    ELSE IF Len(UploadedImages(req)) > 1 THEN ForwardedTexts(req) = <<DefaultMergePrompt>>
    ELSE ForwardedTexts(req) = <<>>

PromptOnly(req) == req.parsable /\ req.files = <<>> /\ req.file = None /\ req.prompt # None

\* The route, with its key configured, answers inflight[i] in this step.
AnsweredWithKey(i) == Answered(i) /\ inflight'[i].key = Some(TRUE)

\* The route passed the request on with its trimmed prompt as the only part,
\* and did not answer that input is missing.
ForwardedPromptAlone(i) ==
    /\ inflight'[i].calls = 1
    /\ Len(Contents(inflight[i].req[1])) = 1
    /\ Contents(inflight[i].req[1])[1].text = Trim(inflight[i].req[1].prompt[1])
    /\ Contents(inflight[i].req[1])[1].inlineData = None
    /\ inflight'[i].resp[1].body[1].error # "Provide a prompt or at least one image."

\* handleSubmit sends the prompt with no file in this step.
SendsPromptAlone ==
    /\ Len(inflight') = Len(inflight) + 1
    /\ PromptOnly(inflight'[Len(inflight')].req[1])
    /\ inflight'[Len(inflight')].req[1].prompt = Some(instructions)
    /\ submitError' = None

Handled == { i \in DOMAIN inflight : inflight[i].req # None /\ inflight[i].key # None }

\* A form-data request with neither a usable prompt nor an image file.
CarriesNothing(req) ==
    req.parsable /\ ~PromptUsable(req) /\ UploadedImages(req) = <<>>

\* The exchange was answered with this error and the API was not called.
RefusedWith(e, status, message) ==
    /\ e.resp[1].status = status
    /\ ~e.resp[1].body[1].ok
    /\ e.resp[1].body[1].error = message
    /\ e.calls = 0
    /\ e.api = None

\* C16 as stated: a request with neither a usable prompt nor an image file is
\* answered 400 "Provide a prompt or at least one image." and the API is not
\* called for it.
C16_Original ==
    \A i \in Handled :
        CarriesNothing(inflight[i].req[1])
        => RefusedWith(inflight[i], 400, "Provide a prompt or at least one image.")

\* C16 amended: such a request is answered 400 with the missing-input message
\* when the API key is configured, and 500 with the misconfiguration message
\* when it is not; the API is called in neither case.
C16_MissingInputRefused ==
    \A i \in Handled :
        CarriesNothing(inflight[i].req[1])
        => IF inflight[i].key = Some(TRUE)
           THEN RefusedWith(inflight[i], 400, "Provide a prompt or at least one image.")
           ELSE RefusedWith(inflight[i], 500, "Server misconfigured: GEMINI_API_KEY missing")

\* C16 witness: the prompt "null" without a file was answered 400 with the
\* missing-input message by a route whose key is configured.
C16_Witness ==
    \E i \in Handled :
        /\ inflight[i].req[1].prompt = Some("null")
        /\ CarriesNothing(inflight[i].req[1])
        /\ inflight[i].key = Some(TRUE)
        /\ RefusedWith(inflight[i], 400, "Provide a prompt or at least one image.")

\* A failed call is answered with an error: the API threw, the route called it
\* once and the response is an error body.
FailedCallAnswered(e) ==
    (e.api # None /\ e.api[1].throws)
    => /\ e.calls = 1
       /\ ~e.resp[1].body[1].ok
       /\ e.resp[1].status >= 400

FailedWithError(r) ==
    /\ ~r.rejected
    /\ ~(r.status >= 200 /\ r.status <= 299)
    /\ r.body # None
    /\ r.body[1].error # ""

\* The settled fetch is a failed response that carries no error string.
FailedWithoutError(r) ==
    /\ ~r.rejected
    /\ ~(r.status >= 200 /\ r.status <= 299)
    /\ (r.body = None \/ r.body[1].error = "")

\* C18: when a request fails with an error body, submitError becomes the
\* server's error string unchanged; "Upload failed" is displayed only for a
\* failed response that carries no error string.
C18_ErrorShownVerbatim ==
    [][\A i \in DOMAIN inflight :
          handleSubmitSettled(i)
          => /\ FailedWithError(inflight[i].resp[1])
                   => submitError' = Some(inflight[i].resp[1].body[1].error)
             /\ submitError' = Some(MsgUploadFailed)
                   => FailedWithoutError(inflight[i].resp[1])]_vars

\* C18 witness: the route's policy message is displayed, the submission over.
C18_Witness ==
    /\ submitError = Some("Request blocked: SAFETY - Prompt rejected")
    /\ lastSubmission = "done"
    /\ ~isSubmitting

\* C19: isSubmitting is true exactly while a submission's request is
\* outstanding (issued by handleSubmit and not yet dealt with by it), and every
\* started submission returns it to false in the end, however its fetch settles.
C19_BusyUntilSettled ==
    /\ [](isSubmitting <=> inflight # <<>>)
    /\ (isSubmitting ~> ~isSubmitting)

\* C19 witness: a submission whose fetch failed at the network level is over
\* and the widget is not busy.
C19_Witness ==
    /\ submitError = Some(MsgFailedToFetch)
    /\ lastSubmission = "done"
    /\ inflight = <<>>
    /\ ~isSubmitting

\* Two files with the same name, size and lastModified.
SameIdentity(f, g) ==
    f.name = g.name /\ f.size = g.size /\ f.lastModified = g.lastModified

\* The entries of list that no earlier entry shares its identity with, in the
\* order and position they have in list.
FirstOccurrences(list) ==
    LET firsts == { k \in 1..Len(list) : \A j \in 1..(k - 1) : ~SameIdentity(list[j], list[k]) }
        Rank(k) == Cardinality({ j \in firsts : j <= k })
    IN  [m \in 1..Cardinality(firsts) |-> list[CHOOSE k \in firsts : Rank(k) = m]]

\* The call of selectFiles replaced the selection (no rejection message).
SelectionAccepted == errorMessage' \notin { Some(MsgInvalidFiles), Some(MsgTotalSize) }

\* C20: in every reachable state no two selected files share the identity
\* (name, size, lastModified); an accepted selection is made of the first
\* occurrences, in their order, of the files already selected followed by the
\* new images (cut to MAX_IMAGES): a later duplicate is dropped, a duplicate of
\* a file already selected included.
C20_NoDuplicates ==
    /\ [](\A j, k \in 1..Len(selectedFiles) :
             j # k => ~SameIdentity(selectedFiles[j], selectedFiles[k]))
    /\ [][\A files \in DropLists :
             (SelectsFiles(files) /\ SelectionAccepted)
             => selectedFiles' =
                   FirstMaxImages(FirstOccurrences(selectedFiles \o SelectSeq(files, IsImage)))]_vars

\* C20 witness: big.png and eight files that were already selected were added
\* to nine selected files; the eight duplicates are gone and big.png is last.
C20_Witness == selectedFiles = Smalls(1, 9) \o <<Big>>

\* The preview at each index is the object URL of the file at that index.
PreviewsParallel ==
    /\ Len(previewUrls) = Len(selectedFiles)
    /\ \A i \in 1..Len(selectedFiles) : previewUrls[i].blob = selectedFiles[i]

\* C21: previewUrls always has the length of selectedFiles and its i-th entry
\* is a preview of the i-th selected file; a step changes the one exactly when
\* it changes the other (an accepted selection, or Clear emptying both).
C21_PreviewsParallel ==
    /\ []PreviewsParallel
    /\ [][(selectedFiles' # selectedFiles) <=> (previewUrls' # previewUrls)]_vars

\* Two files selected, with their two previews in the same order.
C21_Witness ==
    /\ selectedFiles = <<Med, Small(10)>>
    /\ previewUrls = <<[blob |-> Med], [blob |-> Small(10)]>>

\* A file whose MIME type begins with image/.
HasImageType(f) == Len(f.type) >= 6 /\ SubSeq(f.type, 1, 6) = "image/"

\* The lists offered to the widget in which no file has an image type.
ListsWithoutImage ==
    { files \in DropLists : \A i \in 1..Len(files) : ~HasImageType(files[i]) }

\* C22: the selection only ever holds files whose type starts with image/,
\* and a call of selectFiles in which no image remains after the filter sets
\* the error 'Please select valid image files.' and leaves selectedFiles and
\* previewUrls as they were.
C22_OnlyImagesSelected ==
    /\ [](\A i \in 1..Len(selectedFiles) : HasImageType(selectedFiles[i]))
    /\ [][\A files \in ListsWithoutImage :
            SelectsFiles(files) =>
                /\ errorMessage' = Some("Please select valid image files.")
                /\ selectedFiles' = selectedFiles
                /\ previewUrls' = previewUrls]_vars

\* Two images are selected and a further pick of no image at all was refused.
C22_Witness ==
    /\ selectedFiles = <<Med, Small(10)>>
    /\ previewUrls = <<[blob |-> Med], [blob |-> Small(10)]>>
    /\ errorMessage = Some("Please select valid image files.")

\* The exchanges in which the call of the external API threw.
ApiThrew == { i \in Handled : inflight[i].api # None /\ inflight[i].api[1].throws }

\* C23: when the external API call throws, the route's response carries the
\* thrown error's message ('Failed to generate image' when it has none) and
\* the error's status when that is a number from 400 to 599 inclusive, 502
\* in every other case.
C23_ThrownErrorRelayed ==
    \A i \in ApiThrew :
        LET err == inflight[i].api[1]
            r   == inflight[i].resp[1]
        IN  /\ r.body # None
            /\ ~r.body[1].ok
            /\ r.body[1].error =
                  (IF err.message # "" THEN err.message ELSE "Failed to generate image")
            /\ r.status =
                  (IF err.status # None /\ err.status[1] \in 400..599
                   THEN err.status[1] ELSE 502)

\* An error thrown with status 599 and no message was answered with status
\* 599 and the fallback message.
C23_Witness ==
    \E i \in ApiThrew :
        /\ inflight[i].api[1].status = Some(599)
        /\ inflight[i].api[1].message = ""
        /\ inflight[i].resp[1].status = 599
        /\ inflight[i].resp[1].body[1].error = "Failed to generate image"

\* handleSubmit sends the whole selection in this step: one "files" entry per
\* selected file, in order, and the first file again as "file".
SendsSelection ==
    /\ Len(inflight') = Len(inflight) + 1
    /\ inflight'[Len(inflight')].req[1].files = selectedFiles
    /\ inflight'[Len(inflight')].req[1].file = Some(selectedFiles[1])

\* What the route hands to generateContent for req is at most one text part
\* followed by one image part per file of files, in their order, each with
\* the file's bytes (in base64) and the file's type.
ForwardsEachOnce(req, files) ==
    LET contents == Contents(req)
        n == Len(files)
        t == Len(contents) - n
    IN  /\ t \in {0, 1}
        /\ \A k \in 1..t : contents[k].inlineData = None /\ contents[k].text # ""
        /\ \A k \in 1..n :
              contents[t + k].inlineData
                  = Some([data |-> [base64Of |-> files[k]], mimeType |-> files[k].type])

\* C24: for n >= 1 files submitted by the widget, the route (its key
\* configured) calls the API once with exactly n image parts, in selection
\* order, each with the file's bytes and type, after the text part if there is
\* one; the "file" entry the widget also sends adds no further image.
C24_ForwardsEachFileOnce ==
    [][/\ (handleSubmit /\ selectedFiles # <<>>) => SendsSelection
       /\ \A i \in DOMAIN inflight :
            (AnsweredWithKey(i) /\ inflight[i].req[1].files # <<>>)
            => /\ inflight[i].req[1].file # None
               /\ inflight'[i].calls = 1
               /\ ForwardsEachOnce(inflight[i].req[1], inflight[i].req[1].files)]_vars

\* Two selected files were submitted with the prompt " cat\n"; the route
\* called the API once and answered with the generated image.
C24_Witness ==
    /\ selectedFiles = <<Med, Small(10)>>
    /\ instructions = " cat\n"
    /\ \E i \in DOMAIN inflight :
          /\ inflight[i].key = Some(TRUE)
          /\ inflight[i].calls = 1
          /\ inflight[i].resp # None
          /\ inflight[i].resp[1].body # None
          /\ inflight[i].resp[1].body[1].ok

\* list begins with the entries of prefix, in their order.
IsPrefix(prefix, list) ==
    /\ Len(prefix) <= Len(list)
    /\ \A i \in 1..Len(prefix) : list[i] = prefix[i]

\* Some file of the selection is no longer selected after the step.
RemovesAFile ==
    \E i \in 1..Len(selectedFiles) :
        \A j \in 1..Len(selectedFiles') : selectedFiles'[j] # selectedFiles[i]

\* C25: after any call of selectFiles from handleChange or handleDrop the
\* previous selection is a prefix of the new one (files are only appended),
\* and handleClear is the only operation that removes a file.
C25_SelectionOnlyGrows ==
    [][/\ ~handleClear => IsPrefix(selectedFiles, selectedFiles')
       /\ RemovesAFile => handleClear]_vars

\* Two files were selected, then nine more picked with "Add images": the two
\* are still first and eight of the nine follow them.
C25_Witness ==
    /\ selectedFiles = <<Med, Small(10)>> \o Smalls(1, 8)
    /\ errorMessage = Some(MsgMaxImages)

\* The exchanges the route itself has answered.
RouteAnswered ==
    { i \in DOMAIN inflight : inflight[i].resp # None /\ inflight[i].key # None }

\* C26 as stated: every submission that passes the widget's check also passes
\* the route's: the route never answers a request issued by handleSubmit with
\* 'Provide a prompt or at least one image.'
C26_Original ==
    \A i \in RouteAnswered :
        inflight[i].resp[1].body[1].error # "Provide a prompt or at least one image."

\* C27 as stated: after Clear no result image is displayed until a submission
\* started after that Clear completes successfully: the response to a
\* request that was in flight when the user cleared or changed the selection
\* does not repopulate the result image or the submit messages.
C27_Original ==
    [][\A i \in DOMAIN inflight :
          (handleSubmitSettled(i) /\ lastSubmission = "outdated")
          => /\ resultImage' = resultImage
             /\ submitSuccess' = submitSuccess
             /\ submitError' = submitError]_vars

\* C28 as stated: in every reachable state a recorded success comes with an
\* image: submitSuccess non-null implies resultImage non-null.
C28_Original == submitSuccess # None => resultImage # None

\* Exactly one of the two submit messages is displayed.
OneSubmitMessage == (submitError' # None) # (submitSuccess' # None)

\* C29: submitError and submitSuccess are never both non-null: a submission
\* clears both when it starts (one that is refused for missing input then
\* sets the error alone), and sets exactly one of them when it ends.
C29_MessagesExclusive ==
    /\ [](~(submitError # None /\ submitSuccess # None))
    /\ [][/\ handleSubmit
             => /\ submitSuccess' = None
                /\ IF Len(inflight') > Len(inflight)
                   THEN submitError' = None
                   ELSE submitError' = Some("Enter a prompt or upload images.")
          /\ \A i \in DOMAIN inflight : handleSubmitSettled(i) => OneSubmitMessage]_vars

\* A submission failed after an earlier one had succeeded: the earlier image
\* is still there, the success message is gone and the error alone is shown.
C29_Witness ==
    /\ resultImage # None
    /\ submitError = Some("Quota exceeded")
    /\ submitSuccess = None
    /\ lastSubmission = "done"

\* The exchanges handled by a route whose GEMINI_API_KEY is not set.
HandledWithoutKey == { i \in Handled : inflight[i].key = Some(FALSE) }

\* C30 as stated: when GEMINI_API_KEY is not configured the route answers
\* every request with 500 'Server misconfigured: GEMINI_API_KEY missing' and
\* never calls the external API, whatever the request.
C30_Original ==
    \A i \in HandledWithoutKey :
        RefusedWith(inflight[i], 500, "Server misconfigured: GEMINI_API_KEY missing")

\* C30 amended: without the key the route never calls the API and answers
\* every request it can read as form data with 500 'Server misconfigured:
\* GEMINI_API_KEY missing', a request without prompt and image included; a
\* body it cannot read is answered 500 'Server error' before the key is read.
C30_MisconfiguredRefusesAll ==
    \A i \in HandledWithoutKey :
        IF inflight[i].req[1].parsable
        THEN RefusedWith(inflight[i], 500, "Server misconfigured: GEMINI_API_KEY missing")
        ELSE RefusedWith(inflight[i], 500, "Server error")

\* A form-data request with no prompt entry and no file was answered 500 with
\* the misconfiguration message by a route without its key.
C30_Witness ==
    \E i \in HandledWithoutKey :
        /\ inflight[i].req[1].parsable
        /\ inflight[i].req[1].prompt = None
        /\ inflight[i].req[1].files = <<>>
        /\ inflight[i].req[1].file = None
        /\ inflight[i].resp[1].status = 500
        /\ inflight[i].resp[1].body[1].error = "Server misconfigured: GEMINI_API_KEY missing"

====
